---- MODULE Spec2Model ----
(***************************************************************************)
(* A model of the Gendash engine: the pydantic schema of a dashboard       *)
(* specification (schemas.py), the data analyzer (data_analyzer.py) and    *)
(* the generator with its retry loop and fallback                          *)
(* (dashboard_generator.py).                                               *)
(*                                                                         *)
(* Strings are TLA+ strings; a character is a string of length 1.          *)
(* An optional JSON key is a sequence: << >> when the key is absent and    *)
(* <<v>> when it is present with value v.                                  *)
(***************************************************************************)
EXTENDS Integers, Sequences, FiniteSets, TLC

VARIABLES
    candidate,   \* the parsed JSON document handed to DashboardSpec(**...)
    verdict,     \* the outcome of DashboardSpec(**candidate)
    data,        \* the record list of the request
    pc,          \* position of generate_dashboard_with_fallback
    attempt,     \* attempts of generate_dashboard made by @retry
    llmCalls,    \* invocations of the LLM in this request
    analysis,    \* the last DataAnalysisResult computed
    result       \* what generate_dashboard_with_fallback returned or raised

vars == <<candidate, verdict, data, pc, attempt, llmCalls, analysis, result>>

-----------------------------------------------------------------------------
(* Strings *)

Absent == << >>
Some(v) == <<v>>
Has(o) == Len(o) > 0
Get(o) == o[1]

CharAt(s, i) == SubSeq(s, i, i)

LowerLetters ==
    {"a","b","c","d","e","f","g","h","i","j","k","l","m",
     "n","o","p","q","r","s","t","u","v","w","x","y","z"}
UpperLetters ==
    {"A","B","C","D","E","F","G","H","I","J","K","L","M",
     "N","O","P","Q","R","S","T","U","V","W","X","Y","Z"}
Digits == {"0","1","2","3","4","5","6","7","8","9"}
Whitespace == {" ", "\t", "\n", "\r", "\f"}

\* str.strip(): leading and trailing whitespace removed
RECURSIVE LStrip(_)
LStrip(s) == IF s # "" /\ Head(s) \in Whitespace THEN LStrip(Tail(s)) ELSE s
RECURSIVE RStrip(_)
RStrip(s) ==
    IF s # "" /\ CharAt(s, Len(s)) \in Whitespace
    THEN RStrip(SubSeq(s, 1, Len(s) - 1))
    ELSE s
Strip(s) == RStrip(LStrip(s))

\* every string over alphabet al of length at most n
RECURSIVE StringsUpTo(_, _)
StringsUpTo(al, n) ==
    IF n = 0 THEN {""}
    ELSE LET shorter == StringsUpTo(al, n - 1)
         IN  shorter \cup {s \o c : s \in shorter, c \in al}

SeqToSet(q) == {q[i] : i \in 1..Len(q)}

-----------------------------------------------------------------------------
(* schemas.py *)

\* class ComponentType(str, Enum): the values of the enum
ComponentType == {"line", "bar", "pie", "area", "table", "metric", "scatter", "heatmap"}

\* One validation error: kind names the rule, at the component (0: top level),
\* ids the identifiers a duplicate-id error lists.
Err(kind, at) == [kind |-> kind, at |-> at, ids |-> {}]

\* a value of a dataMapping key
MAbsent == [k |-> "absent", s |-> "", l |-> << >>]
MNone == [k |-> "none", s |-> "", l |-> << >>]
MStr(s) == [k |-> "str", s |-> s, l |-> << >>]
MList(l) == [k |-> "list", s |-> "", l |-> l]

\* DataMapping.validate_field_names: on xAxis, value, label, category
validate_field_names(v) ==
    ~(v.k # "none" /\ v.k = "str" /\ Len(Strip(v.s)) = 0)

\* Optional[str]
OptStrErrors(name, v, at) ==
    IF v.k \in {"absent", "none"} THEN {}
    ELSE IF v.k # "str" THEN {Err("dataMapping." \o name \o ":type", at)}
    ELSE IF ~validate_field_names(v) THEN {Err("dataMapping." \o name \o ":empty", at)}
    ELSE {}

\* class DataMapping: the errors of one dataMapping value
DataMapping(m, at) ==
    OptStrErrors("xAxis", m.xAxis, at)
    \cup OptStrErrors("value", m.value, at)
    \cup OptStrErrors("label", m.label, at)
    \cup OptStrErrors("category", m.category, at)
    \* yAxis: Optional[str | List[str]], series: Optional[List[str]]; no validator
    \cup (IF m.series.k = "str" THEN {Err("dataMapping.series:type", at)} ELSE {})

\* Position.validate_dimensions: "if v > 12"
GridMax == 12

\* Position.validate_dimensions
validate_dimensions(v) == ~(v > GridMax)

\* class Position
Position(p, at) ==
    (IF p.x >= 0 THEN {} ELSE {Err("position.x:ge", at)})
    \cup (IF p.y >= 0 THEN {} ELSE {Err("position.y:ge", at)})
    \cup (IF ~(p.width > 0) THEN {Err("position.width:gt", at)}
          ELSE IF ~validate_dimensions(p.width) THEN {Err("position.width:max", at)}
          ELSE {})
    \cup (IF ~(p.height > 0) THEN {Err("position.height:gt", at)}
          ELSE IF ~validate_dimensions(p.height) THEN {Err("position.height:max", at)}
          ELSE {})

\* DashboardComponent.validate_id_format: re.match(r'^[a-zA-Z0-9_-]+$', v).
\* Without re.MULTILINE, $ matches at the end of the string and also just
\* before a newline that is the last character of the string.
IdCharClass == LowerLetters \cup UpperLetters \cup Digits \cup {"_", "-"}
validate_id_format(v) ==
    LET body == IF v # "" /\ CharAt(v, Len(v)) = "\n"
                THEN SubSeq(v, 1, Len(v) - 1)
                ELSE v
    IN  /\ Len(body) >= 1
        /\ \A i \in 1..Len(body) : CharAt(body, i) \in IdCharClass

\* class DashboardComponent: the errors of component number at
DashboardComponent(c, at) ==
    (IF ~Has(c.id) THEN {Err("missing:id", at)}
     ELSE IF ~(Len(Get(c.id)) >= 1) THEN {Err("id:min_length", at)}
     ELSE IF ~validate_id_format(Get(c.id)) THEN {Err("id:format", at)}
     ELSE {})
    \cup (IF ~Has(c.type) THEN {Err("missing:type", at)}
          ELSE IF Get(c.type) \notin ComponentType THEN {Err("type:enum", at)}
          ELSE {})
    \cup (IF ~Has(c.title) THEN {Err("missing:title", at)}
          ELSE IF ~(Len(Get(c.title)) >= 1) THEN {Err("title:min_length", at)}
          ELSE {})
    \cup (IF ~Has(c.dataMapping) THEN {Err("missing:dataMapping", at)}
          ELSE DataMapping(Get(c.dataMapping), at))
    \cup (IF ~Has(c.position) THEN {Err("missing:position", at)}
          ELSE Position(Get(c.position), at))

\* class LayoutConfig: columns defaults to 12 and lies in 1..24, rows >= 1
DefaultColumns == 12
MaxColumns == 24
LayoutColumns(l) == IF Has(l.columns) THEN Get(l.columns) ELSE DefaultColumns
LayoutConfig(l) ==
    (IF LayoutColumns(l) >= 1 /\ LayoutColumns(l) <= MaxColumns THEN {}
     ELSE {Err("layout.columns:range", 0)})
    \cup (IF ~Has(l.rows) THEN {Err("missing:layout.rows", 0)}
          ELSE IF ~(Get(l.rows) >= 1) THEN {Err("layout.rows:ge", 0)}
          ELSE {})

\* class Metadata: title (min_length 1) and apiEndpoint are required
Metadata(m) ==
    (IF ~Has(m.title) THEN {Err("missing:metadata.title", 0)}
     ELSE IF ~(Len(Get(m.title)) >= 1) THEN {Err("metadata.title:min_length", 0)}
     ELSE {})
    \cup (IF ~Has(m.apiEndpoint) THEN {Err("missing:metadata.apiEndpoint", 0)} ELSE {})

\* the field validation of DashboardSpec: every field error of the document
FieldErrors(d) ==
    (IF ~Has(d.components) THEN {Err("missing:components", 0)}
     ELSE LET cs == Get(d.components)
          IN  (IF ~(Len(cs) >= 1) THEN {Err("components:min_length", 0)} ELSE {})
              \cup UNION {DashboardComponent(cs[i], i) : i \in 1..Len(cs)})
    \cup (IF ~Has(d.layout) THEN {Err("missing:layout", 0)}
          ELSE LayoutConfig(Get(d.layout)))
    \cup (IF ~Has(d.metadata) THEN {Err("missing:metadata", 0)}
          ELSE Metadata(Get(d.metadata)))

\* validate_no_duplicate_ids with "count(id) > 2" for "count(id) > 1"
validate_no_duplicate_ids_count2(cs) ==
    LET component_ids == [i \in 1..Len(cs) |-> Get(cs[i].id)]
        count(id) == Cardinality({i \in 1..Len(cs) : component_ids[i] = id})
        duplicates == {component_ids[i] : i \in {j \in 1..Len(cs) : count(component_ids[j]) > 2}}
    IN  IF Len(cs) # Cardinality(SeqToSet(component_ids))
        THEN {[kind |-> "duplicate_ids", at |-> 0, ids |-> duplicates]}
        ELSE {}

\* DashboardSpec.validate_no_duplicate_ids
validate_no_duplicate_ids(cs) ==
    LET component_ids == [i \in 1..Len(cs) |-> Get(cs[i].id)]
        count(id) == Cardinality({i \in 1..Len(cs) : component_ids[i] = id})
        duplicates == {component_ids[i] : i \in {j \in 1..Len(cs) : count(component_ids[j]) > 1}}
    IN  IF Len(cs) # Cardinality(SeqToSet(component_ids))
        THEN {[kind |-> "duplicate_ids", at |-> 0, ids |-> duplicates]}
        ELSE {}

\* DashboardSpec.validate_component_positions: the first component that
\* extends beyond the grid width raises
validate_component_positions(cs, l) ==
    LET bad == {i \in 1..Len(cs) :
                  Get(cs[i].position).x + Get(cs[i].position).width > LayoutColumns(l)}
    IN  IF bad = {} THEN {}
        ELSE {Err("grid_width", CHOOSE i \in bad : \A j \in bad : i <= j)}

\* DashboardSpec(**d): the field errors if there are any; otherwise the
\* mode='after' model validators in definition order, the first that raises
\* ending the validation (validate_overlapping_components only prints).
DashboardSpec(d) ==
    LET fe == FieldErrors(d)
        cs == Get(d.components)
        dup == validate_no_duplicate_ids(cs)
        pos == validate_component_positions(cs, Get(d.layout))
        errors == IF fe # {} THEN fe ELSE IF dup # {} THEN dup ELSE pos
    IN  [valid |-> errors = {}, errors |-> errors]

Unvalidated == [valid |-> FALSE, errors |-> {Err("unvalidated", 0)}]

\* DataMapping(**m).model_dump(): the six declared fields, None where the
\* input had no such key; the model has no extra='allow', so a key that is
\* no declared field is not kept
DataMapping_model_dump(m) ==
    LET Dumped(v) == IF v.k = "absent" THEN MNone ELSE v
    IN  [xAxis |-> Dumped(m.xAxis), yAxis |-> Dumped(m.yAxis), value |-> Dumped(m.value),
         label |-> Dumped(m.label), category |-> Dumped(m.category),
         series |-> Dumped(m.series), extra |-> << >>]

\* DashboardSpec(**d).model_dump() of a valid document, on the keys the
\* documents of this model carry: layout.columns takes its default
model_dump(d) ==
    [d EXCEPT
        !.components =
            Some([i \in 1..Len(Get(d.components)) |->
                    LET c == Get(d.components)[i]
                    IN  [c EXCEPT !.dataMapping = Some(DataMapping_model_dump(Get(c.dataMapping)))]]),
        !.layout = Some([Get(d.layout) EXCEPT !.columns = Some(LayoutColumns(Get(d.layout)))])]

-----------------------------------------------------------------------------
(* data_analyzer.py: records, flattening and the DataFrame *)

\* A JSON value. Numbers are held in tenths (5 is n = 50, 37.7 is n = 377);
\* a bool is n = 0 or 10; items holds the (key, value) pairs of a mapping in
\* insertion order, or the elements of a sequence under the key "".
Null == [k |-> "null", n |-> 0, s |-> "", items |-> << >>]
NaN == [k |-> "nan", n |-> 0, s |-> "", items |-> << >>]
IntV(i) == [k |-> "int", n |-> 10 * i, s |-> "", items |-> << >>]
FloatV(tenths) == [k |-> "float", n |-> tenths, s |-> "", items |-> << >>]
BoolV(b) == [k |-> "bool", n |-> IF b THEN 10 ELSE 0, s |-> "", items |-> << >>]
StrV(s) == [k |-> "str", n |-> 0, s |-> s, items |-> << >>]
Pair(key, val) == [key |-> key, val |-> val]
DictV(pairs) == [k |-> "dict", n |-> 0, s |-> "", items |-> pairs]
ListV(elems) ==
    [k |-> "list", n |-> 0, s |-> "", items |-> [i \in 1..Len(elems) |-> Pair("", elems[i])]]

IsNull(v) == v.k \in {"null", "nan"}

\* printable ASCII in code-point order (the backquote left out)
Ascii ==
    " !\"#$%&'()*+,-./0123456789:;<=>?@ABCDEFGHIJKLMNOPQRSTUVWXYZ[\\]^_abcdefghijklmnopqrstuvwxyz{|}~"
Rank(c) == CHOOSE i \in 1..Len(Ascii) : CharAt(Ascii, i) = c

\* a < b for Python strings
RECURSIVE StrLess(_, _)
StrLess(a, b) ==
    IF b = "" THEN FALSE
    ELSE IF a = "" THEN TRUE
    ELSE IF Head(a) = Head(b) THEN StrLess(Tail(a), Tail(b))
    ELSE Rank(Head(a)) < Rank(Head(b))

\* str.lower()
UpperString == "ABCDEFGHIJKLMNOPQRSTUVWXYZ"
LowerString == "abcdefghijklmnopqrstuvwxyz"
LowerChar(c) ==
    IF c \in UpperLetters
    THEN CharAt(LowerString, CHOOSE i \in 1..Len(UpperString) : CharAt(UpperString, i) = c)
    ELSE c
RECURSIVE Lower(_)
Lower(s) == IF s = "" THEN "" ELSE LowerChar(Head(s)) \o Lower(Tail(s))

\* Python's "h in s" for strings
Contains(s, h) ==
    \E i \in 1..(Len(s) - Len(h) + 1) : SubSeq(s, i, i + Len(h) - 1) = h

\* str(int) and repr(float) of a number held in tenths
RECURSIVE NatStr(_)
NatStr(i) ==
    IF i < 10 THEN CharAt("0123456789", i + 1)
    ELSE NatStr(i \div 10) \o CharAt("0123456789", (i % 10) + 1)
Abs(i) == IF i < 0 THEN 0 - i ELSE i
IntStr(tenths) == (IF tenths < 0 THEN "-" ELSE "") \o NatStr(Abs(tenths) \div 10)
FloatStr(tenths) ==
    (IF tenths < 0 THEN "-" ELSE "") \o NatStr(Abs(tenths) \div 10) \o "."
        \o NatStr(Abs(tenths) % 10)

\* the pairs sorted by key, as json.dumps(sort_keys=True) orders them
RECURSIVE SortPairs(_)
InsertPair(sorted, p) ==
    LET at == Cardinality({i \in 1..Len(sorted) : ~StrLess(p.key, sorted[i].key)})
    IN  SubSeq(sorted, 1, at) \o <<p>> \o SubSeq(sorted, at + 1, Len(sorted))
SortPairs(pairs) ==
    IF pairs = << >> THEN << >>
    ELSE InsertPair(SortPairs(SubSeq(pairs, 1, Len(pairs) - 1)), pairs[Len(pairs)])

\* the strings of q joined by ", "
RECURSIVE Join(_)
Join(q) ==
    IF q = << >> THEN ""
    ELSE IF Len(q) = 1 THEN q[1]
    ELSE q[1] \o ", " \o Join(Tail(q))

\* json.dumps(v, sort_keys=True)
RECURSIVE JsonDumps(_)
JsonDumps(v) ==
    CASE v.k \in {"null", "nan"} -> "null"
      [] v.k = "bool" -> IF v.n = 0 THEN "false" ELSE "true"
      [] v.k = "int" -> IntStr(v.n)
      [] v.k = "float" -> FloatStr(v.n)
      [] v.k = "str" -> "\"" \o v.s \o "\""
      [] v.k = "list" ->
            "[" \o Join([i \in 1..Len(v.items) |-> JsonDumps(v.items[i].val)]) \o "]"
      [] v.k = "dict" ->
            LET sorted == SortPairs(v.items)
            IN  "{" \o Join([i \in 1..Len(sorted) |->
                        "\"" \o sorted[i].key \o "\": " \o JsonDumps(sorted[i].val)]) \o "}"

\* str(v) / repr(v) of a Python value
RECURSIVE PyStr(_)
PyStr(v) ==
    CASE v.k \in {"null", "nan"} -> "None"
      [] v.k = "bool" -> IF v.n = 0 THEN "False" ELSE "True"
      [] v.k = "int" -> IntStr(v.n)
      [] v.k = "float" -> FloatStr(v.n)
      [] v.k = "str" -> "'" \o v.s \o "'"
      [] v.k = "list" ->
            "[" \o Join([i \in 1..Len(v.items) |-> PyStr(v.items[i].val)]) \o "]"
      [] v.k = "dict" ->
            "{" \o Join([i \in 1..Len(v.items) |->
                        "'" \o v.items[i].key \o "': " \o PyStr(v.items[i].val)]) \o "}"

\* dict(items): a key keeps the place of its first pair and the value of its last
RECURSIVE DictOf(_)
DictOf(pairs) ==
    IF pairs = << >> THEN << >>
    ELSE LET front == DictOf(SubSeq(pairs, 1, Len(pairs) - 1))
             p == pairs[Len(pairs)]
         IN  IF \E i \in 1..Len(front) : front[i].key = p.key
             THEN [i \in 1..Len(front) |-> IF front[i].key = p.key THEN p ELSE front[i]]
             ELSE Append(front, p)

\* DataAnalyzer._flatten_dict(d, parent_key, sep='.'): d is the pairs of a mapping
RECURSIVE _flatten_dict(_, _)
RECURSIVE FlattenItems(_, _)
FlattenItems(d, parent_key) ==
    IF d = << >> THEN << >>
    ELSE LET key == d[1].key
             v == d[1].val
             new_key == IF parent_key # "" THEN parent_key \o "." \o key ELSE key
             here ==
                IF v.k = "dict" THEN _flatten_dict(v.items, new_key)
                ELSE IF v.k = "list"
                THEN IF Len(v.items) > 0 /\ v.items[1].val.k = "dict"
                     THEN <<Pair(new_key, StrV(JsonDumps(v)))>>
                     ELSE <<Pair(new_key, StrV(PyStr(v)))>>
                ELSE <<Pair(new_key, v)>>
         IN  here \o FlattenItems(Tail(d), parent_key)
_flatten_dict(d, parent_key) == DictOf(FlattenItems(d, parent_key))

\* A row of the input: a mapping (its pairs) or an opaque scalar.
RowDict(pairs) == [isDict |-> TRUE, items |-> pairs]
RowScalar == [isDict |-> FALSE, items |-> << >>]

\* DataAnalyzer.__init__: self.data, the rows with every mapping flattened
Flattened(raw) ==
    [i \in 1..Len(raw) |->
        IF ~raw[i].isDict THEN raw[i] ELSE RowDict(_flatten_dict(raw[i].items, ""))]

\* pd.DataFrame(list of dicts).columns: the keys in order of first appearance
RECURSIVE FrameColumns(_)
FrameColumns(rows) ==
    IF rows = << >> THEN << >>
    ELSE IF Len(rows) = 1 THEN [i \in 1..Len(rows[1].items) |-> rows[1].items[i].key]
    ELSE LET half == Len(rows) \div 2
             front == FrameColumns(SubSeq(rows, 1, half))
             back == FrameColumns(SubSeq(rows, half + 1, Len(rows)))
         IN  front \o SelectSeq(back, LAMBDA key : \A j \in 1..Len(front) : front[j] # key)

\* the value of column col in one row; NaN where the row has no such key
CellOf(row, col) ==
    IF \E i \in 1..Len(row.items) : row.items[i].key = col
    THEN row.items[CHOOSE i \in 1..Len(row.items) : row.items[i].key = col].val
    ELSE NaN

\* the dtype pandas infers for a column of Python objects
DType(cells) ==
    LET kinds == {cells[i].k : i \in 1..Len(cells)}
    IN  IF "str" \in kinds THEN "object"
        ELSE IF "bool" \in kinds THEN (IF kinds = {"bool"} THEN "bool" ELSE "object")
        ELSE IF kinds = {"int"} THEN "int64"
        ELSE IF kinds \cap {"int", "float"} # {} THEN "float64"
        ELSE IF "nan" \in kinds THEN "float64"
        ELSE "object"

\* self.df[col]: the values of a column after dtype inference (None is NaN
\* in a float64 column)
Column(rows, col) ==
    LET cells == [i \in 1..Len(rows) |-> CellOf(rows[i], col)]
        dtype == DType(cells)
    IN  [dtype |-> dtype,
         cells |-> [i \in 1..Len(cells) |->
                      IF dtype = "float64" /\ cells[i].k = "null" THEN NaN ELSE cells[i]]]

\* Series.dropna()
DropNa(cells) == SelectSeq(cells, LAMBDA c : ~IsNull(c))

\* Series.head(n)
Head_(cells, n) == SubSeq(cells, 1, IF Len(cells) < n THEN Len(cells) ELSE n)

\* values as pandas compares them: 1, 1.0 and True are the same value
ValueKey(v) ==
    IF v.k \in {"int", "float", "bool"} THEN [k |-> "num", n |-> v.n, s |-> ""]
    ELSE [k |-> v.k, n |-> v.n, s |-> v.s]

\* Series.nunique(): the distinct non-null values
NUnique(cells) == Cardinality({ValueKey(c) : c \in SeqToSet(DropNa(cells))})

\* pd.api.types.is_numeric_dtype: bool is a numeric dtype
is_numeric_dtype(dtype) == dtype \in {"int64", "float64", "bool"}
is_integer_dtype(dtype) == dtype = "int64"

-----------------------------------------------------------------------------
(* data_analyzer.py: field detection *)

DigitVal(c) == CHOOSE i \in 0..9 : CharAt("0123456789", i + 1) = c
AllDigits(s) == \A i \in 1..Len(s) : CharAt(s, i) \in Digits
RECURSIVE NatOf(_)
NatOf(s) == IF s = "" THEN 0 ELSE 10 * NatOf(SubSeq(s, 1, Len(s) - 1)) + DigitVal(CharAt(s, Len(s)))

\* what a strptime directive accepts: %Y four digits; %m 1..12, %d 1..31,
\* %H 0..23, %M 0..59, %S 0..61, each of one or two digits
DirectiveAccepts(d, t) ==
    /\ AllDigits(t)
    /\ CASE d = "Y" -> Len(t) = 4
         [] d = "m" -> Len(t) \in {1, 2} /\ NatOf(t) >= 1 /\ NatOf(t) <= 12 /\ (Len(t) = 1 => t # "0")
         [] d = "d" -> Len(t) \in {1, 2} /\ NatOf(t) >= 1 /\ NatOf(t) <= 31 /\ (Len(t) = 1 => t # "0")
         [] d = "H" -> Len(t) \in {1, 2} /\ NatOf(t) <= 23
         [] d = "M" -> Len(t) \in {1, 2} /\ NatOf(t) <= 59
         [] d = "S" -> Len(t) \in {1, 2} /\ NatOf(t) <= 61
         [] OTHER -> FALSE

\* the whole of string t matches format fmt
RECURSIVE MatchesFormat(_, _)
MatchesFormat(fmt, t) ==
    IF fmt = "" THEN t = ""
    ELSE IF Head(fmt) = "%"
    THEN \E w \in 1..4 :
            /\ w <= Len(t)
            /\ DirectiveAccepts(CharAt(fmt, 2), SubSeq(t, 1, w))
            /\ MatchesFormat(SubSeq(fmt, 3, Len(fmt)), SubSeq(t, w + 1, Len(t)))
    ELSE t # "" /\ Head(t) = Head(fmt) /\ MatchesFormat(Tail(fmt), Tail(t))

\* _is_datetime_field: date_formats
date_formats ==
    <<"%Y-%m-%d", "%Y-%m-%dT%H:%M:%S", "%Y-%m-%d %H:%M:%S", "%m/%d/%Y", "%Y/%m/%d", "%d-%m-%Y">>

\* pd.to_datetime(sample, format=fmt, errors='coerce').notna() for one value:
\* a value that is no string is matched through str(value)
ParsesWithFormat(fmt, v) ==
    CASE v.k = "str" -> MatchesFormat(fmt, v.s)
      [] v.k = "int" -> MatchesFormat(fmt, IntStr(v.n))
      [] v.k = "float" -> MatchesFormat(fmt, FloatStr(v.n))
      [] OTHER -> FALSE

\* extra layouts the permissive parser reads besides date_formats
mixed_layouts == <<"%Y-%m-%dT%H:%M", "%Y-%m", "%Y%m%d", "%m-%d-%Y", "%d/%m/%Y", "%Y-%m-%d %H:%M">>

\* pd.to_datetime(sample, format='mixed', errors='coerce').notna() for one
\* value: a number is read as nanoseconds since the epoch
ParsesMixed(v) ==
    CASE v.k \in {"int", "float"} -> TRUE
      [] v.k = "str" ->
            \/ \E i \in 1..Len(date_formats) : MatchesFormat(date_formats[i], v.s)
            \/ \E i \in 1..Len(mixed_layouts) : MatchesFormat(mixed_layouts[i], v.s)
      [] OTHER -> FALSE

CountOf(cells, P(_)) == Cardinality({i \in 1..Len(cells) : P(cells[i])})

\* "valid_dates / len(sample) > 0.8"
Above80(valid, total) == 10 * valid > 8 * total

name_hints == <<"date", "time", "timestamp", "created", "updated", "at", "on">>
AnyHint(hints, name) == \E i \in 1..Len(hints) : Contains(Lower(name), hints[i])

\* DataAnalyzer._is_datetime_field(column). pd.to_datetime raises TypeError
\* on a bool column, which the loop and the mixed attempt both swallow.
_is_datetime_field(rows, column) ==
    LET col == Column(rows, column)
        sample == Head_(DropNa(col.cells), 10)
        has_name_hint == AnyHint(name_hints, column)
        valid(fmt) == CountOf(sample, LAMBDA v : ParsesWithFormat(fmt, v))
        last == date_formats[Len(date_formats)]
    IN  IF Len(sample) = 0 THEN FALSE
        ELSE IF col.dtype = "bool" THEN has_name_hint
        ELSE IF \E i \in 1..Len(date_formats) : Above80(valid(date_formats[i]), Len(sample))
        THEN TRUE
        ELSE IF valid(last) = 0
                /\ Above80(CountOf(sample, LAMBDA v : ParsesMixed(v)), Len(sample))
        THEN TRUE
        ELSE has_name_hint

\* the members of sequence q that satisfy P, in order
Filter(q, P(_)) ==
    LET RECURSIVE From(_)
        From(i) == IF i > Len(q) THEN << >>
                   ELSE (IF P(q[i]) THEN <<q[i]>> ELSE << >>) \o From(i + 1)
    IN  From(1)

\* DataAnalyzer._detect_time_fields (no column has a datetime64 dtype)
_detect_time_fields(rows) ==
    Filter(FrameColumns(rows), LAMBDA col : _is_datetime_field(rows, col))

\* Series.is_unique: no value occurs twice (NaN is a value like any other)
is_unique(cells) ==
    \A i, j \in 1..Len(cells) : i # j => ValueKey(cells[i]) # ValueKey(cells[j])

\* Series.is_monotonic_increasing: non-decreasing, and no NaN
is_monotonic_increasing(cells) ==
    /\ \A i \in 1..Len(cells) : ~IsNull(cells[i])
    /\ \A i \in 1..(Len(cells) - 1) : cells[i].n <= cells[i + 1].n

id_hints == <<"id", "key", "index", "no", "number", "code">>

\* an identifier by its name alone
_is_id_field_by_name(rows, column) == AnyHint(id_hints, column)

\* DataAnalyzer._is_id_field(column)
_is_id_field(rows, column) ==
    /\ AnyHint(id_hints, column)
    /\ \/ is_unique(Column(rows, column).cells)
       \/ is_monotonic_increasing(Column(rows, column).cells)

\* DataAnalyzer._detect_numeric_fields
_detect_numeric_fields(rows) ==
    Filter(FrameColumns(rows),
           LAMBDA col : is_numeric_dtype(Column(rows, col).dtype) /\ ~_is_id_field(rows, col))

CategoricalCap == 50

\* the categorical filter with the half included
_detect_categorical_fields_half_included(rows) ==
    Filter(FrameColumns(rows),
           LAMBDA col :
              /\ ~is_numeric_dtype(Column(rows, col).dtype)
              /\ 2 * NUnique(Column(rows, col).cells) <= Len(rows)
              /\ NUnique(Column(rows, col).cells) < CategoricalCap)

\* DataAnalyzer._detect_categorical_fields:
\* "unique_count < total_count * 0.5 and unique_count < 50"
_detect_categorical_fields(rows) ==
    Filter(FrameColumns(rows),
           LAMBDA col :
              /\ ~is_numeric_dtype(Column(rows, col).dtype)
              /\ 2 * NUnique(Column(rows, col).cells) < Len(rows)
              /\ NUnique(Column(rows, col).cells) < CategoricalCap)

\* DataAnalyzer._detect_geographic_fields: the role of one column, "" for
\* none; a column that passes both tests ends as 'lon' (the later assignment)
lat_patterns == <<"lat", "latitude", "y">>
lon_patterns == <<"lon", "lng", "long", "longitude", "x">>
InRange(cells, lo, hi) ==
    LET sample == Head_(DropNa(cells), 100)
    IN  /\ Len(sample) > 0
        /\ \A i \in 1..Len(sample) : lo * 10 <= sample[i].n /\ sample[i].n <= hi * 10
GeoRole(rows, col) ==
    LET c == Column(rows, col)
        lat == AnyHint(lat_patterns, col) /\ is_numeric_dtype(c.dtype) /\ InRange(c.cells, 0 - 90, 90)
        lon == AnyHint(lon_patterns, col) /\ is_numeric_dtype(c.dtype) /\ InRange(c.cells, 0 - 180, 180)
    IN  IF lon THEN "lon" ELSE IF lat THEN "lat" ELSE ""
_detect_geographic_fields(rows) ==
    LET cols == Filter(FrameColumns(rows), LAMBDA col : GeoRole(rows, col) # "")
    IN  [i \in 1..Len(cols) |-> Pair(cols[i], GeoRole(rows, cols[i]))]

-----------------------------------------------------------------------------
(* data_analyzer.py: key metrics, statistics, chart recommendation, analyze *)

Reverse(q) == [i \in 1..Len(q) |-> q[Len(q) + 1 - i]]

RECURSIVE SumOf(_)
SumOf(q) ==
    IF q = << >> THEN 0
    ELSE IF Len(q) = 1 THEN q[1]
    ELSE SumOf(SubSeq(q, 1, Len(q) \div 2)) + SumOf(SubSeq(q, Len(q) \div 2 + 1, Len(q)))

\* Series.var() (ddof = 1) as the fraction num / den; NaN with fewer than two
\* non-null values
Variance(cells) ==
    LET xs == DropNa(cells)
        n == Len(xs)
        sum == SumOf([i \in 1..n |-> xs[i].n])
        squares == SumOf([i \in 1..n |-> xs[i].n * xs[i].n])
    IN  IF n < 2 THEN [nan |-> TRUE, num |-> 0, den |-> 1]
        ELSE [nan |-> FALSE, num |-> n * squares - sum * sum, den |-> n * (n - 1)]

\* a < b on floats: false when either is NaN
FloatLess(a, b) == ~a.nan /\ ~b.nan /\ a.num * b.den < b.num * a.den

\* list.sort() of CPython on fewer than 64 items that carry a key in .val:
\* the leading run is found (and reversed when strictly descending), the
\* rest is placed by binary insertion
BinaryInsert(sorted, pivot) ==
    LET RECURSIVE Search(_, _)
        Search(l, r) ==
            IF l >= r THEN l
            ELSE LET mid == l + ((r - l) \div 2)
                 IN  IF FloatLess(pivot.val, sorted[mid + 1].val)
                     THEN Search(l, mid)
                     ELSE Search(mid + 1, r)
        at == Search(0, Len(sorted))
    IN  SubSeq(sorted, 1, at) \o <<pivot>> \o SubSeq(sorted, at + 1, Len(sorted))
ListSort(a) ==
    IF Len(a) < 2 THEN a
    ELSE LET descending == FloatLess(a[2].val, a[1].val)
             InRun(i) == IF descending THEN FloatLess(a[i].val, a[i - 1].val)
                                       ELSE ~FloatLess(a[i].val, a[i - 1].val)
             run == CHOOSE r \in 2..Len(a) :
                        /\ \A i \in 2..r : InRun(i)
                        /\ r < Len(a) => ~InRun(r + 1)
             first == IF descending THEN Reverse(SubSeq(a, 1, run)) ELSE SubSeq(a, 1, run)
             RECURSIVE Place(_, _)
             Place(sorted, i) ==
                IF i > Len(a) THEN sorted ELSE Place(BinaryInsert(sorted, a[i]), i + 1)
         IN  Place(first, run + 1)

\* sorted(items, key=..., reverse=True): reversed, sorted, reversed back
SortedReverse(a) == Reverse(ListSort(Reverse(a)))

\* DataAnalyzer._identify_key_metrics(numeric_fields)
metric_keywords ==
    <<"total", "sum", "count", "average", "avg", "mean",
      "revenue", "sales", "profit", "cost", "price",
      "amount", "value", "rate", "percentage", "score",
      "balance", "budget", "spend", "earning">>
TopN == 3

\* key metrics drawn from every column of a numeric dtype, identifiers included
_identify_key_metrics_with_ids(rows, numeric_fields) ==
    LET all_numeric == Filter(FrameColumns(rows), LAMBDA col : is_numeric_dtype(Column(rows, col).dtype))
        key_metrics == Filter(all_numeric, LAMBDA f : AnyHint(metric_keywords, f))
        variances == [i \in 1..Len(all_numeric) |->
                        Pair(all_numeric[i], Variance(Column(rows, all_numeric[i]).cells))]
        sorted_fields == SortedReverse(variances)
    IN  IF key_metrics = << >> /\ Len(all_numeric) > 0
        THEN [i \in 1..(IF Len(sorted_fields) < TopN THEN Len(sorted_fields) ELSE TopN) |->
                sorted_fields[i].key]
        ELSE key_metrics

_identify_key_metrics(rows, numeric_fields) ==
    LET key_metrics == Filter(numeric_fields, LAMBDA f : AnyHint(metric_keywords, f))
        variances == [i \in 1..Len(numeric_fields) |->
                        Pair(numeric_fields[i], Variance(Column(rows, numeric_fields[i]).cells))]
        sorted_fields == SortedReverse(variances)
    IN  IF key_metrics = << >> /\ Len(numeric_fields) > 0
        THEN [i \in 1..(IF Len(sorted_fields) < TopN THEN Len(sorted_fields) ELSE TopN) |->
                sorted_fields[i].key]
        ELSE key_metrics

\* DataAnalyzer._calculate_cardinality
_calculate_cardinality(rows) ==
    LET cols == FrameColumns(rows)
    IN  [i \in 1..Len(cols) |-> Pair(cols[i], NUnique(Column(rows, cols[i]).cells))]

\* DataAnalyzer._calculate_null_percentages: round(nulls / total * 100, 2),
\* held in hundredths of a percent
_calculate_null_percentages(rows) ==
    LET cols == FrameColumns(rows)
        nulls(col) == CountOf(Column(rows, col).cells, LAMBDA v : IsNull(v))
    IN  [i \in 1..Len(cols) |->
            Pair(cols[i], (2 * 10000 * nulls(cols[i]) + Len(rows)) \div (2 * Len(rows)))]

\* the value a list of pairs gives to key, dflt when the key is missing
Lookup(pairs, key, dflt) ==
    IF \E i \in 1..Len(pairs) : pairs[i].key = key
    THEN pairs[CHOOSE i \in 1..Len(pairs) : pairs[i].key = key].val
    ELSE dflt

\* the first occurrence of every member of q, in order
RECURSIVE Dedup(_)
Dedup(q) ==
    IF q = << >> THEN << >>
    ELSE LET front == Dedup(SubSeq(q, 1, Len(q) - 1))
         IN  IF q[Len(q)] \in SeqToSet(front) THEN front ELSE Append(front, q[Len(q)])

LowCardinality == 10

\* the recommender without its closing table
_recommend_chart_types_no_table(time_fields, numeric_fields, categorical_fields, cardinality, geographic_fields) ==
    (IF time_fields # << >> /\ numeric_fields # << >> THEN <<"line", "area">> ELSE << >>)
    \o <<"metric">>

\* the recommender with globe for either role
_recommend_chart_types_any_role(time_fields, numeric_fields, categorical_fields, cardinality, geographic_fields) ==
    LET low_cardinality_cats ==
            Filter(categorical_fields, LAMBDA cat : Lookup(cardinality, cat, LowCardinality + 1) <= LowCardinality)
        recommendations ==
            (IF geographic_fields # << >> THEN <<"globe">> ELSE << >>)
            \o (IF time_fields # << >> /\ numeric_fields # << >> THEN <<"line", "area">> ELSE << >>)
            \o (IF categorical_fields # << >> /\ numeric_fields # << >> /\ low_cardinality_cats # << >>
                THEN <<"bar", "pie">> ELSE << >>)
            \o (IF Len(numeric_fields) >= 2 THEN <<"scatter">> ELSE << >>)
            \o <<"metric">>
            \o <<"table">>
    IN  Dedup(recommendations)

\* the recommender with globe in the last place
_recommend_chart_types_globe_last(time_fields, numeric_fields, categorical_fields, cardinality, geographic_fields) ==
    LET has_lat == \E i \in 1..Len(geographic_fields) : geographic_fields[i].val = "lat"
        has_lon == \E i \in 1..Len(geographic_fields) : geographic_fields[i].val = "lon"
        low_cardinality_cats ==
            Filter(categorical_fields, LAMBDA cat : Lookup(cardinality, cat, LowCardinality + 1) <= LowCardinality)
        recommendations ==
            (IF time_fields # << >> /\ numeric_fields # << >> THEN <<"line", "area">> ELSE << >>)
            \o (IF categorical_fields # << >> /\ numeric_fields # << >> /\ low_cardinality_cats # << >>
                THEN <<"bar", "pie">> ELSE << >>)
            \o (IF Len(numeric_fields) >= 2 THEN <<"scatter">> ELSE << >>)
            \o <<"metric">>
            \o <<"table">>
            \o (IF has_lat /\ has_lon THEN <<"globe">> ELSE << >>)
    IN  Dedup(recommendations)

\* DataAnalyzer._recommend_chart_types
_recommend_chart_types(time_fields, numeric_fields, categorical_fields, cardinality, geographic_fields) ==
    LET has_lat == \E i \in 1..Len(geographic_fields) : geographic_fields[i].val = "lat"
        has_lon == \E i \in 1..Len(geographic_fields) : geographic_fields[i].val = "lon"
        low_cardinality_cats ==
            Filter(categorical_fields, LAMBDA cat : Lookup(cardinality, cat, LowCardinality + 1) <= LowCardinality)
        recommendations ==
            (IF has_lat /\ has_lon THEN <<"globe">> ELSE << >>)
            \o (IF time_fields # << >> /\ numeric_fields # << >> THEN <<"line", "area">> ELSE << >>)
            \o (IF categorical_fields # << >> /\ numeric_fields # << >> /\ low_cardinality_cats # << >>
                THEN <<"bar", "pie">> ELSE << >>)
            \o (IF Len(numeric_fields) >= 2 THEN <<"scatter">> ELSE << >>)
            \o <<"metric">>
            \o <<"table">>
    IN  Dedup(recommendations)

\* DataAnalyzer._detect_data_types (no column has a datetime64 dtype; a bool
\* dtype is numeric, so the boolean branch is not reached)
_detect_data_types(rows) ==
    LET cols == FrameColumns(rows)
        TypeOf(col) ==
            LET dtype == Column(rows, col).dtype
            IN  IF is_numeric_dtype(dtype)
                THEN (IF is_integer_dtype(dtype) THEN "integer" ELSE "float")
                ELSE IF _is_datetime_field(rows, col) THEN "datetime"
                ELSE "string"
    IN  [i \in 1..Len(cols) |-> Pair(cols[i], TypeOf(cols[i]))]

\* DataAnalysisResult(dataTypes={}, isTimeSeries=False, recommendedCharts=["metric"])
SampleRows == 10
EmptyResult ==
    [dataTypes |-> << >>, isTimeSeries |-> FALSE, timeFields |-> << >>,
     numericFields |-> << >>, categoricalFields |-> << >>, keyMetrics |-> << >>,
     cardinality |-> << >>, nullPercentages |-> << >>,
     recommendedCharts |-> <<"metric">>, sampleData |-> << >>]

\* DataFrame.empty of self.df: no row or no column
df_empty(rows) == Len(rows) = 0 \/ FrameColumns(rows) = << >>

\* DataAnalyzer(data).analyze() raises: a row that is no mapping gives the
\* frame integer column labels (or fails its construction), and
\* column.lower() raises AttributeError
AnalyzeRaises(raw) == \E i \in 1..Len(raw) : ~raw[i].isDict

\* DataAnalyzer(data).analyze(), for rows that are mappings
analyze(raw) ==
    LET rows == Flattened(raw)
        data_types == _detect_data_types(rows)
        time_fields == _detect_time_fields(rows)
        numeric_fields == _detect_numeric_fields(rows)
        categorical_fields == _detect_categorical_fields(rows)
        geographic_fields == _detect_geographic_fields(rows)
        key_metrics == _identify_key_metrics(rows, numeric_fields)
        cardinality == _calculate_cardinality(rows)
        null_percentages == _calculate_null_percentages(rows)
        recommended_charts ==
            _recommend_chart_types(time_fields, numeric_fields, categorical_fields,
                                   cardinality, geographic_fields)
    IN  IF df_empty(rows) THEN EmptyResult
        ELSE [dataTypes |-> data_types,
              isTimeSeries |-> Len(time_fields) > 0,
              timeFields |-> time_fields,
              numericFields |-> numeric_fields,
              categoricalFields |-> categorical_fields,
              keyMetrics |-> key_metrics,
              cardinality |-> cardinality,
              nullPercentages |-> null_percentages,
              recommendedCharts |-> recommended_charts,
              sampleData |-> Head_(rows, SampleRows)]

-----------------------------------------------------------------------------
(* Candidate specifications: the documents validation is checked on *)

\* bounds of the candidate documents
MaxComponents == 2
MaxIdLen == 2

\* the ten component types the specification document lists
SpecTypes ==
    {"line", "bar", "horizontalBar", "pie", "area", "table", "metric",
     "scatter", "heatmap", "globe"}

\* a dataMapping with none of the six declared keys; extra holds the pairs
\* of any other key the mapping carries
EmptyMapping ==
    [xAxis |-> MAbsent, yAxis |-> MAbsent, value |-> MAbsent,
     label |-> MAbsent, category |-> MAbsent, series |-> MAbsent,
     extra |-> << >>]
BasePosition == [x |-> 0, y |-> 0, width |-> 4, height |-> 1]
BaseComponent ==
    [id |-> Some("chart_1"), type |-> Some("line"), title |-> Some("T"),
     dataMapping |-> Some(EmptyMapping), position |-> Some(BasePosition)]
BaseLayout == [columns |-> Absent, rows |-> Some(2)]
BaseMetadata == [title |-> Some("D"), apiEndpoint |-> Some("u")]

IdChoices == {Some("chart_2"), Some("a b"), Some(""), Absent}
TypeChoices == {Some(t) : t \in SpecTypes \cup {"bogus", "LINE"}} \cup {Absent}
TitleChoices == {Some(""), Absent}
MappingChoices ==
    {Absent}
    \cup {Some([EmptyMapping EXCEPT ![key] = v]) :
            key \in {"xAxis", "value", "label", "category"},
            v \in {MNone, MStr("f"), MStr(""), MStr(" ")}}
    \cup {Some([EmptyMapping EXCEPT !.yAxis = v]) :
            v \in {MNone, MStr("f"), MStr(""), MList(<<"f", "g">>), MList(<<"f", "">>)}}
    \cup {Some([EmptyMapping EXCEPT !.series = v]) :
            v \in {MNone, MList(<<"f">>), MList(<<"">>)}}
PositionChoices ==
    {Absent}
    \cup {Some([x |-> 10, y |-> 0, width |-> 4, height |-> 1]),
          Some([x |-> 0, y |-> 1, width |-> 4, height |-> 3]),
          Some([x |-> 0, y |-> 0, width |-> 13, height |-> 1]),
          Some([x |-> 0, y |-> 0, width |-> 0, height |-> 1]),
          Some([x |-> 0 - 1, y |-> 0, width |-> 4, height |-> 1])}

\* the base component and every component that differs from it in one key
ComponentVariants ==
    {BaseComponent}
    \cup {[BaseComponent EXCEPT !.id = v] : v \in IdChoices}
    \cup {[BaseComponent EXCEPT !.type = v] : v \in TypeChoices}
    \cup {[BaseComponent EXCEPT !.title = v] : v \in TitleChoices}
    \cup {[BaseComponent EXCEPT !.dataMapping = v] : v \in MappingChoices}
    \cup {[BaseComponent EXCEPT !.position = v] : v \in PositionChoices}

\* a component as the generator's prompt asks for it: id, type, title, dataMapping
PromptComponent(id, type) ==
    [id |-> Some(id), type |-> Some(type), title |-> Some("T"),
     dataMapping |-> Some(EmptyMapping), position |-> Absent]

\* the components of the documents with several components
ListedVariants ==
    {BaseComponent,
     [BaseComponent EXCEPT !.id = Some("chart_2")],
     [BaseComponent EXCEPT !.id = Some("a b")],
     [BaseComponent EXCEPT !.title = Some("")],
     [BaseComponent EXCEPT !.type = Some("globe")],
     [BaseComponent EXCEPT !.dataMapping = Some([EmptyMapping EXCEPT !.yAxis = MStr("")])],
     [BaseComponent EXCEPT !.position = Some([x |-> 10, y |-> 0, width |-> 4, height |-> 1])],
     [BaseComponent EXCEPT !.position = Some([x |-> 0, y |-> 1, width |-> 4, height |-> 3])],
     PromptComponent("chart_1", "line"),
     PromptComponent("chart_2", "bar")}

\* every sequence over set S of length 0..n
RECURSIVE SeqsUpTo(_, _)
SeqsUpTo(S, n) ==
    IF n = 0 THEN {<< >>}
    ELSE LET shorter == SeqsUpTo(S, n - 1)
         IN  shorter \cup {Append(q, e) : q \in shorter, e \in S}

TopChoices ==
    {[layout |-> Some(BaseLayout), metadata |-> Some(BaseMetadata)],
     [layout |-> Some([columns |-> Some(4), rows |-> Some(1)]), metadata |-> Some(BaseMetadata)],
     [layout |-> Some(BaseLayout), metadata |-> Some([title |-> Some(""), apiEndpoint |-> Some("u")])],
     [layout |-> Absent, metadata |-> Some(BaseMetadata)],
     [layout |-> Some(BaseLayout), metadata |-> Absent],
     [layout |-> Absent, metadata |-> Absent]}

Document(cs, top) ==
    [components |-> cs, layout |-> top.layout, metadata |-> top.metadata]

IdAlphabet == {"a", "Z", "7", "_", "-", " ", "\n", "!"}

Candidates ==
    \* one component that differs from the base in one key
    {Document(Some(<<c>>), top) : c \in ComponentVariants, top \in TopChoices}
    \* zero to MaxComponents listed components, and no components key
    \cup {Document(Some(cs), top) : cs \in SeqsUpTo(ListedVariants, MaxComponents), top \in TopChoices}
    \cup {Document(Absent, top) : top \in TopChoices}
    \* one component with every id over IdAlphabet of length 0..MaxIdLen
    \cup {Document(Some(<<[BaseComponent EXCEPT !.id = Some(v)]>>), CHOOSE top \in TopChoices :
                     top.layout = Some(BaseLayout) /\ top.metadata = Some(BaseMetadata)) :
            v \in StringsUpTo(IdAlphabet, MaxIdLen)}

-----------------------------------------------------------------------------
(* State of a request before anything has run *)

NoCandidate == Document(Absent, [layout |-> Absent, metadata |-> Absent])
NoResult == [kind |-> "none", doc |-> NoCandidate]

\* validation of one candidate: Unvalidated -> Valid | Invalid
InitValidate ==
    /\ candidate \in Candidates
    /\ verdict = Unvalidated
    /\ data = << >>
    /\ pc = "validate"
    /\ attempt = 0
    /\ llmCalls = 0
    /\ analysis = Absent
    /\ result = NoResult

Validate ==
    /\ pc = "validate"
    /\ verdict = Unvalidated
    /\ verdict' = DashboardSpec(candidate)
    /\ UNCHANGED <<candidate, data, pc, attempt, llmCalls, analysis, result>>

NextValidate == Validate

SpecValidate == InitValidate /\ [][NextValidate]_vars

Validated == pc = "validate" /\ verdict # Unvalidated

-----------------------------------------------------------------------------
(* dashboard_generator.py: the fallback builder *)

UpperChar(c) ==
    IF c \in LowerLetters
    THEN CharAt(UpperString, CHOOSE i \in 1..Len(LowerString) : CharAt(LowerString, i) = c)
    ELSE c

\* str.replace(old, new) for a one-character old
RECURSIVE Replace(_, _, _)
Replace(s, old, new) ==
    IF s = "" THEN ""
    ELSE (IF Head(s) = old THEN new ELSE Head(s)) \o Replace(Tail(s), old, new)

\* str.title(): a letter after a letter is lowered, any other letter is raised
Title(s) ==
    LET IsCased(c) == c \in LowerLetters \cup UpperLetters
        RECURSIVE From(_)
        From(i) ==
            IF i > Len(s) THEN ""
            ELSE LET c == CharAt(s, i)
                     previous_is_cased == i > 1 /\ IsCased(CharAt(s, i - 1))
                 IN  (IF previous_is_cased THEN LowerChar(c) ELSE UpperChar(c)) \o From(i + 1)
    IN  From(1)

\* a component dict of the fallback dashboard: id, type, title, dataMapping
FallbackComponent(id, type, title, mapping) ==
    [id |-> Some(id), type |-> Some(type), title |-> Some(title),
     dataMapping |-> Some(mapping), position |-> Absent]

MaxMetricCards == 3

\* the builder without its closing table
_create_fallback_dashboard_no_table(analysis_) ==
    LET shown == Head_(analysis_.keyMetrics, MaxMetricCards)
        cards == [i \in 1..Len(shown) |->
                    FallbackComponent("metric_" \o NatStr(i), "metric",
                                      Title(Replace(shown[i], "_", " ")),
                                      [EmptyMapping EXCEPT !.value = MStr(shown[i])])]
    IN  Document(Some(cards), [layout |-> Absent, metadata |-> Absent])
\* the builder with the bar chart before the line chart
_create_fallback_dashboard_bar_first(analysis_) ==
    LET shown == Head_(analysis_.keyMetrics, MaxMetricCards)
        cards == [i \in 1..Len(shown) |->
                    FallbackComponent("metric_" \o NatStr(i), "metric",
                                      Title(Replace(shown[i], "_", " ")),
                                      [EmptyMapping EXCEPT !.value = MStr(shown[i])])]
        line == IF analysis_.isTimeSeries /\ analysis_.timeFields # << >> /\ analysis_.numericFields # << >>
                THEN <<FallbackComponent("chart_1", "line", "Trend Over Time",
                          [EmptyMapping EXCEPT !.xAxis = MStr(analysis_.timeFields[1]),
                                               !.yAxis = MStr(analysis_.numericFields[1])])>>
                ELSE << >>
        bar == IF analysis_.categoricalFields # << >> /\ analysis_.numericFields # << >>
               THEN <<FallbackComponent("chart_2", "bar", "Comparison by Category",
                         [EmptyMapping EXCEPT !.xAxis = MStr(analysis_.categoricalFields[1]),
                                              !.yAxis = MStr(analysis_.numericFields[1])])>>
               ELSE << >>
        table == <<FallbackComponent("table_1", "table", "Data Table", EmptyMapping)>>
    IN  Document(Some(cards \o bar \o line \o table), [layout |-> Absent, metadata |-> Absent])

\* the body of DashboardGenerator._create_fallback_dashboard after analyze():
\* the dict {"components": components}
_create_fallback_dashboard(analysis_) ==
    LET shown == Head_(analysis_.keyMetrics, MaxMetricCards)
        cards == [i \in 1..Len(shown) |->
                    FallbackComponent("metric_" \o NatStr(i), "metric",
                                      Title(Replace(shown[i], "_", " ")),
                                      [EmptyMapping EXCEPT !.value = MStr(shown[i])])]
        line == IF analysis_.isTimeSeries /\ analysis_.timeFields # << >> /\ analysis_.numericFields # << >>
                THEN <<FallbackComponent("chart_1", "line", "Trend Over Time",
                          [EmptyMapping EXCEPT !.xAxis = MStr(analysis_.timeFields[1]),
                                               !.yAxis = MStr(analysis_.numericFields[1])])>>
                ELSE << >>
        bar == IF analysis_.categoricalFields # << >> /\ analysis_.numericFields # << >>
               THEN <<FallbackComponent("chart_2", "bar", "Comparison by Category",
                         [EmptyMapping EXCEPT !.xAxis = MStr(analysis_.categoricalFields[1]),
                                              !.yAxis = MStr(analysis_.numericFields[1])])>>
               ELSE << >>
        table == <<FallbackComponent("table_1", "table", "Data Table", EmptyMapping)>>
    IN  Document(Some(cards \o line \o bar \o table), [layout |-> Absent, metadata |-> Absent])

-----------------------------------------------------------------------------
(* dashboard_generator.py: generate_dashboard_with_fallback *)

\* stop_after_attempt(3)
MaxAttempts == 3

\* the type normalisation of the recovery path, on one type string
NormalizedType(type_value) ==
    LET type_normalized == Strip(Lower(type_value))
    IN  IF type_normalized = "horizontalbar" \/ type_normalized = "horizontal_bar"
        THEN "horizontalBar"
        ELSE IF type_normalized \notin ComponentType
        THEN (IF \E enum_val \in ComponentType : Lower(enum_val) = type_normalized
              THEN CHOOSE enum_val \in ComponentType : Lower(enum_val) = type_normalized
              ELSE type_value)
        ELSE type_value
NormalizeTypes(d) ==
    IF ~Has(d.components) THEN d
    ELSE [d EXCEPT !.components =
            Some([i \in 1..Len(Get(d.components)) |->
                    LET component == Get(d.components)[i]
                    IN  IF Has(component.type)
                        THEN [component EXCEPT !.type = Some(NormalizedType(Get(component.type)))]
                        ELSE component])]

\* bound on the number of records of a request
MaxRecords == 3

\* the records requests are made of
RowPool ==
    {RowDict(<<Pair("date", StrV("2024-01-01")), Pair("sales", IntV(100)), Pair("region", StrV("east"))>>),
     RowDict(<<Pair("date", StrV("2024-01-02")), Pair("sales", IntV(150)), Pair("region", StrV("east"))>>),
     RowDict(<<Pair("lat", FloatV(377)), Pair("lon", FloatV(0 - 1224)), Pair("count", IntV(5))>>),
     RowDict(<<Pair("user", DictV(<<Pair("id", IntV(7))>>)), Pair("x", Null)>>),
     RowDict(<<Pair("a", IntV(1)), Pair("b", BoolV(TRUE))>>),
     RowDict(<< >>),
     RowScalar}
Datasets == SeqsUpTo(RowPool, MaxRecords)

\* the dataMapping of a line chart with the keys the prompt names for it
\* (xKey, yKeys) beside a declared key
PromptMapping ==
    [EmptyMapping EXCEPT
        !.xAxis = MStr("date"),
        !.extra = <<Pair("xKey", MStr("date")), Pair("yKeys", MList(<<"sales">>))>>]

\* the documents the model is taken to answer with
LLMDocs ==
    {Document(Some(<<BaseComponent>>), [layout |-> Some(BaseLayout), metadata |-> Some(BaseMetadata)]),
     Document(Some(<<[BaseComponent EXCEPT !.type = Some("horizontal_bar")]>>),
              [layout |-> Some(BaseLayout), metadata |-> Some(BaseMetadata)]),
     Document(Some(<<[BaseComponent EXCEPT !.type = Some(" Line")]>>),
              [layout |-> Some(BaseLayout), metadata |-> Some(BaseMetadata)]),
     Document(Some(<<BaseComponent, BaseComponent>>),
              [layout |-> Some(BaseLayout), metadata |-> Some(BaseMetadata)]),
     Document(Some(<<PromptComponent("chart_1", "line"), PromptComponent("table_1", "table")>>),
              [layout |-> Absent, metadata |-> Absent]),
     Document(Some(<<[BaseComponent EXCEPT !.dataMapping = Some(PromptMapping)]>>),
              [layout |-> Some(BaseLayout), metadata |-> Some(BaseMetadata)])}

Init ==
    /\ data \in Datasets
    /\ pc = "start"
    /\ attempt = 0
    /\ llmCalls = 0
    /\ analysis = Absent
    /\ candidate = NoCandidate
    /\ verdict = Unvalidated
    /\ result = NoResult

\* the attempt raises: nothing of it is kept
AttemptFails ==
    /\ pc' = "failed"
    /\ candidate' = NoCandidate
    /\ verdict' = Unvalidated

\* StartAttempt with a retry policy that allows one attempt more
StartAttempt_one_more ==
    /\ pc = "start" \/ (pc = "failed" /\ attempt < MaxAttempts + 1)
    /\ attempt' = attempt + 1
    /\ \/ /\ data = << >> \/ AnalyzeRaises(data)
          /\ AttemptFails
          /\ UNCHANGED analysis
       \/ /\ data # << >> /\ ~AnalyzeRaises(data)
          /\ analysis' = Some(analyze(data))
          /\ pc' = "chain"
          /\ UNCHANGED <<candidate, verdict>>
    /\ UNCHANGED <<data, llmCalls, result>>

\* generate_dashboard is entered (first call, or tenacity calls again):
\* the empty-data check, the analysis, the prompt inputs
StartAttempt ==
    /\ pc = "start" \/ (pc = "failed" /\ attempt < MaxAttempts)
    /\ attempt' = attempt + 1
    /\ \/ /\ data = << >> \/ AnalyzeRaises(data)
          /\ AttemptFails
          /\ UNCHANGED analysis
       \/ /\ data # << >> /\ ~AnalyzeRaises(data)
          /\ analysis' = Some(analyze(data))
          /\ pc' = "chain"
          /\ UNCHANGED <<candidate, verdict>>
    /\ UNCHANGED <<data, llmCalls, result>>

\* chain.invoke(prompt | llm | parser) and the except clause up to the
\* test of the error message
ChainInvoke ==
    /\ pc = "chain"
    /\ llmCalls' = llmCalls + 1
    /\ \/ \* the call raises and the message names no parsing error
          /\ AttemptFails
          /\ UNCHANGED result
       \/ \* the answer is no JSON, or the call raises with such a message
          /\ pc' = "recover"
          /\ UNCHANGED <<candidate, verdict, result>>
       \/ \E d \in LLMDocs :
            /\ candidate' = d
            /\ verdict' = DashboardSpec(d)
            /\ IF DashboardSpec(d).valid
               THEN pc' = "done" /\ result' = [kind |-> "spec", doc |-> model_dump(d)]
               ELSE pc' = "recover" /\ UNCHANGED result
    /\ UNCHANGED <<data, attempt, analysis>>

\* the recovery path: the model is invoked again without the parser, JSON
\* is extracted, types are normalised, DashboardSpec(**parsed_data)
Recover ==
    /\ pc = "recover"
    /\ llmCalls' = llmCalls + 1
    /\ \/ \* the call raises, or no JSON can be extracted or loaded
          /\ AttemptFails
          /\ UNCHANGED result
       \/ \E d \in LLMDocs :
            LET parsed_data == NormalizeTypes(d)
            IN  IF DashboardSpec(parsed_data).valid
                THEN /\ candidate' = parsed_data
                     /\ verdict' = DashboardSpec(parsed_data)
                     /\ pc' = "done"
                     /\ result' = [kind |-> "spec", doc |-> model_dump(parsed_data)]
                ELSE AttemptFails /\ UNCHANGED result
    /\ UNCHANGED <<data, attempt, analysis>>

\* the except clause of generate_dashboard_with_fallback, once tenacity has
\* given up: _create_fallback_dashboard(api_endpoint, data), outside any try
Fallback ==
    /\ pc = "failed" /\ attempt = MaxAttempts
    /\ pc' = "done"
    /\ IF AnalyzeRaises(data)
       THEN /\ result' = [kind |-> "raised", doc |-> NoCandidate]
            /\ UNCHANGED analysis
       ELSE /\ analysis' = Some(analyze(data))
            /\ result' = [kind |-> "fallback", doc |-> _create_fallback_dashboard(analyze(data))]
    /\ UNCHANGED <<data, attempt, llmCalls, candidate, verdict>>

Next == StartAttempt \/ ChainInvoke \/ Recover \/ Fallback

Spec == Init /\ [][Next]_vars

\* StartAttempt as it shows on attempt, and Fallback as it shows on pc: the
\* only steps that count an attempt, and that lead from failed to done
AttemptBegins ==
    /\ pc = "start" \/ (pc = "failed" /\ attempt < MaxAttempts)
    /\ attempt' = attempt + 1
FallbackReturns ==
    /\ pc = "failed" /\ attempt = MaxAttempts
    /\ pc' = "done"

\* A request runs in one thread from the call to the return: a step that can
\* be taken is taken (a call to the model returns or raises, and tenacity's
\* wait between two attempts is at most 10 seconds). The fairness of
\* StartAttempt and of Fallback is stated on AttemptBegins and
\* FallbackReturns, which are enabled without the profile being computed.
FairSpec ==
    /\ Spec
    /\ WF_attempt(AttemptBegins)
    /\ WF_vars(ChainInvoke)
    /\ WF_vars(Recover)
    /\ WF_pc(FallbackReturns)

-----------------------------------------------------------------------------
(* The analyzer and the fallback builder on their own: analyze(), then the *)
(* builder's body on the profile                                            *)

\* the records the analyzer is run on
AnalyzePool ==
    {RowDict(<<Pair("date", StrV("2024-01-01")), Pair("Sales", IntV(100)),
               Pair("region", StrV("east")), Pair("user_id", IntV(1))>>),
     RowDict(<<Pair("date", StrV("2024-01-02")), Pair("Sales", IntV(150)),
               Pair("region", StrV("east")), Pair("user_id", IntV(2))>>),
     RowDict(<<Pair("lat", FloatV(377)), Pair("lon", FloatV(0 - 1224)), Pair("count", IntV(5))>>),
     RowDict(<<Pair("lat", IntV(95)), Pair("lon", IntV(10))>>),
     RowDict(<<Pair("b", IntV(5)), Pair("a", IntV(1)), Pair("v", StrV("01-02-2024"))>>),
     RowDict(<<Pair("a", IntV(2)), Pair("v", StrV("2024-01-05"))>>),
     RowDict(<<Pair("code", IntV(1)), Pair("q", IntV(5)), Pair("r", IntV(3)), Pair("s", IntV(0))>>),
     RowDict(<<Pair("code", IntV(2)), Pair("q", IntV(1)), Pair("r", IntV(3)), Pair("s", IntV(7))>>),
     RowDict(<<Pair("total", IntV(1)), Pair("sum", IntV(2)), Pair("count", IntV(3)),
               Pair("avg", IntV(4)), Pair("updated", StrV("soon")),
               Pair("date", Null), Pair("memo", Null), Pair("created_at", IntV(5))>>),
     RowDict(<< >>)}

\* n records whose field c cycles through k strings and whose field n counts
Cycle(k, n) ==
    [i \in 1..n |-> RowDict(<<Pair("c", StrV("v" \o NatStr(i % k))), Pair("n", IntV(i % 7))>>)]

\* ten records of one field v, the first good of them dates
TenValues(good) ==
    [i \in 1..10 |-> RowDict(<<Pair("v", StrV(IF i <= good THEN "2024-01-0" \o NatStr(i) ELSE "n/a"))>>)]

\* two records with a field of booleans
Flags ==
    <<RowDict(<<Pair("ok", BoolV(TRUE)), Pair("n", IntV(1))>>),
      RowDict(<<Pair("ok", BoolV(FALSE)), Pair("n", IntV(2))>>)>>

LongDatasets ==
    {Cycle(10, 21), Cycle(11, 23), Cycle(49, 99), Cycle(50, 101),
     TenValues(8), TenValues(9), Flags}

\* bound on the length of a sequence value
MaxListLen == 3

\* the elements of the sequence values, and one record per sequence
ElementPool ==
    {IntV(1), StrV("a"), Null, DictV(<<Pair("b", IntV(2)), Pair("a", IntV(1))>>)}
SequenceDatasets ==
    {<<RowDict(<<Pair("tags", ListV(es))>>)>> : es \in SeqsUpTo(ElementPool, MaxListLen)}

AnalyzeDatasets == SeqsUpTo(AnalyzePool, MaxRecords) \cup LongDatasets \cup SequenceDatasets

InitAnalyze ==
    /\ data \in AnalyzeDatasets
    /\ pc = "analyze"
    /\ attempt = 0
    /\ llmCalls = 0
    /\ analysis = Absent
    /\ candidate = NoCandidate
    /\ verdict = Unvalidated
    /\ result = NoResult

\* analyzer = DataAnalyzer(data); analysis = analyzer.analyze()
Analyze ==
    /\ pc = "analyze"
    /\ analysis' = Some(analyze(data))
    /\ pc' = "profiled"
    /\ UNCHANGED <<data, attempt, llmCalls, candidate, verdict, result>>

\* the rest of _create_fallback_dashboard: the components and the return
BuildFallback ==
    /\ pc = "profiled"
    /\ result' = [kind |-> "fallback", doc |-> _create_fallback_dashboard(Get(analysis))]
    /\ pc' = "built"
    /\ UNCHANGED <<data, attempt, llmCalls, analysis, candidate, verdict>>

NextAnalyze == Analyze \/ BuildFallback

SpecAnalyze == InitAnalyze /\ [][NextAnalyze]_vars

-----------------------------------------------------------------------------
(* Claims about validation, checked under SpecValidate *)

Components(d) == IF Has(d.components) THEN Get(d.components) ELSE << >>

\* the ids that two or more components of the document carry
RepeatedIds(d) ==
    LET cs == Components(d)
    IN  {Get(cs[i].id) : i \in {j \in 1..Len(cs) :
            /\ Has(cs[j].id)
            /\ \E k \in 1..Len(cs) : k # j /\ cs[k].id = cs[j].id}}

Names(id) == \E e \in verdict.errors : e.kind = "duplicate_ids" /\ id \in e.ids

\* the candidate supplies every key the schema requires, and its layout and
\* metadata are in order
NoMissingKey(d) ==
    \A e \in FieldErrors(d) : e.at >= 1 /\ SubSeq(e.kind, 1, 8) # "missing:"

WellFormedId(v) ==
    Len(v) >= 1 /\ \A i \in 1..Len(v) : CharAt(v, i) \in IdCharClass

\* every reference of a dataMapping that is present is a non-blank string
RefOk(v) ==
    \/ v.k \in {"absent", "none"}
    \/ v.k = "str" /\ Len(Strip(v.s)) >= 1
    \/ v.k = "list" /\ \A i \in 1..Len(v.l) : Len(Strip(v.l[i])) >= 1
RefsOk(m) ==
    /\ RefOk(m.xAxis) /\ RefOk(m.yAxis) /\ RefOk(m.value)
    /\ RefOk(m.label) /\ RefOk(m.category) /\ RefOk(m.series)

\* a document in the generator's output format: a non-empty components list
\* and nothing else, each component with a well-formed id, a type of the
\* enum, a non-empty title and a dataMapping, the ids pairwise distinct
PromptFormat(d) ==
    LET cs == Components(d)
    IN  /\ Len(cs) >= 1
        /\ ~Has(d.layout) /\ ~Has(d.metadata)
        /\ \A i \in 1..Len(cs) :
             /\ Has(cs[i].id) /\ WellFormedId(Get(cs[i].id))
             /\ Has(cs[i].type) /\ Get(cs[i].type) \in SpecTypes \cap ComponentType
             /\ Has(cs[i].title) /\ Len(Get(cs[i].title)) >= 1
             /\ Has(cs[i].dataMapping) /\ RefsOk(Get(cs[i].dataMapping))
             /\ ~Has(cs[i].position)
        /\ RepeatedIds(d) = {}

\* C6: a candidate that supplies only components, each with a well-formed
\* id, an enum type, a non-empty title and a dataMapping, with distinct ids,
\* is accepted as Valid.
C6_RequiredFieldsOnly ==
    (Validated /\ PromptFormat(candidate)) => verdict.valid

\* C7: a component's type is accepted if and only if it is one of the ten
\* values line, bar, horizontalBar, pie, area, table, metric, scatter,
\* heatmap, globe.
C7_TypeEnumOfTen ==
    Validated =>
        \A i \in 1..Len(Components(candidate)) :
            Has(Components(candidate)[i].type) =>
                (Err("type:enum", i) \notin verdict.errors
                    <=> Get(Components(candidate)[i].type) \in SpecTypes)

\* C8: a component's id is accepted if and only if it is non-empty and every
\* character of it is an ASCII letter, a digit, an underscore or a hyphen.
C8_IdFormat ==
    Validated =>
        \A i \in 1..Len(Components(candidate)) :
            Has(Components(candidate)[i].id) =>
                ((Err("id:format", i) \notin verdict.errors
                    /\ Err("id:min_length", i) \notin verdict.errors)
                  <=> WellFormedId(Get(Components(candidate)[i].id)))

\* C9: in an accepted specification every field reference present in a
\* dataMapping (xAxis, yAxis, value, label, category, series) is a non-empty
\* string.
C9_MappingRefsNonEmpty ==
    (Validated /\ verdict.valid) =>
        \A i \in 1..Len(Components(candidate)) :
            RefsOk(Get(Components(candidate)[i].dataMapping))

\* C10: in an accepted specification no component lies outside the layout
\* grid: x >= 0, y >= 0, x + width <= columns, y + height <= rows.
C10_WithinGrid ==
    (Validated /\ verdict.valid) =>
        \A i \in 1..Len(Components(candidate)) :
            LET p == Get(Components(candidate)[i].position)
                l == Get(candidate.layout)
            IN  /\ p.x >= 0 /\ p.y >= 0
                /\ p.x + p.width <= LayoutColumns(l)
                /\ p.y + p.height <= Get(l.rows)

-----------------------------------------------------------------------------
(* Claims about a request, checked under Spec *)

Returned == pc = "done"
ResultComponents == Components(result.doc)

\* C2: for every input record list, the specification the fallback builder
\* produces is accepted as Valid by the validator.
C2_FallbackOutputValid ==
    (Returned /\ result.kind = "fallback") => DashboardSpec(result.doc).valid

\* C3: generate_dashboard_with_fallback never raises: whatever the
\* generation step does, the call returns the dump of a validated
\* specification or the fallback builder's output.
C3_NeverRaises ==
    Returned => result.kind \in {"spec", "fallback"}

\* C4 as stated: for every input record list, the empty list included, the
\* recommendedCharts of the profile analyze() returns has at least two
\* entries and contains both metric and table.
C4_MetricAndTableAlways ==
    Has(analysis) =>
        /\ Len(Get(analysis).recommendedCharts) >= 2
        /\ {"metric", "table"} \subseteq SeqToSet(Get(analysis).recommendedCharts)

\* C4: the recommendedCharts of the profile analyze() returns contains both
\* metric and table when the frame of the records is not empty, and is
\* exactly <<metric>> when it is empty (no record, or no record has a field).
C4_MetricAndTableUnlessEmpty ==
    Has(analysis) =>
        IF df_empty(Flattened(data))
        THEN Get(analysis).recommendedCharts = <<"metric">>
        ELSE /\ Len(Get(analysis).recommendedCharts) >= 2
             /\ {"metric", "table"} \subseteq SeqToSet(Get(analysis).recommendedCharts)
C4_Witness ==
    /\ Has(analysis)
    /\ ~df_empty(Flattened(data))
    /\ Len(Get(analysis).recommendedCharts) > 2
    /\ {"metric", "table"} \subseteq SeqToSet(Get(analysis).recommendedCharts)

\* C5: for the empty input the profile has no dataTypes, isTimeSeries false
\* and recommendedCharts <<metric>>, and the fallback builder yields exactly
\* one component, of id table_1 and type table.
C5_EmptyInput ==
    (Returned /\ data = << >>) =>
        /\ result.kind = "fallback"
        /\ Has(analysis)
        /\ Get(analysis).dataTypes = << >>
        /\ Get(analysis).isTimeSeries = FALSE
        /\ Get(analysis).recommendedCharts = <<"metric">>
        /\ Len(ResultComponents) = 1
        /\ ResultComponents[1].id = Some("table_1")
        /\ ResultComponents[1].type = Some("table")
C5_Witness ==
    /\ Returned
    /\ data = << >>
    /\ result.kind = "fallback"
    /\ Len(ResultComponents) = 1

\* C11: for one request the generative collaborator is invoked once and its
\* candidate validated once; an Invalid result or a failure of the
\* collaborator leads to the fallback builder without another invocation.
C11_SinglePass ==
    llmCalls <= 1

-----------------------------------------------------------------------------
(* Claims about the profile and the fallback builder, checked under *)
(* SpecAnalyze                                                       *)

Profile == Get(analysis)
Frame == Flattened(data)
Keys(pairs) == {pairs[i].key : i \in 1..Len(pairs)}
TypeOfField(f) == Lookup(Profile.dataTypes, f, "")
NumericValued(f) == TypeOfField(f) \in {"integer", "float"}
ValuesOf(f) == Column(Frame, f).cells

\* C12: for every non-empty input every field named in timeFields,
\* numericFields, categoricalFields or keyMetrics is a key of dataTypes, and
\* keyMetrics is a subset of numericFields.
C12_ProfileWellFormed ==
    (Has(analysis) /\ data # << >>) =>
        /\ SeqToSet(Profile.timeFields) \cup SeqToSet(Profile.numericFields)
             \cup SeqToSet(Profile.categoricalFields) \cup SeqToSet(Profile.keyMetrics)
             \subseteq Keys(Profile.dataTypes)
        /\ SeqToSet(Profile.keyMetrics) \subseteq SeqToSet(Profile.numericFields)
C12_Witness ==
    /\ Has(analysis)
    /\ data # << >>
    /\ Profile.keyMetrics # << >>
    /\ Profile.timeFields # << >>
    /\ Profile.categoricalFields # << >>
    /\ Len(Profile.numericFields) < Cardinality({f \in Keys(Profile.dataTypes) : NumericValued(f)})

SampleVariance(f) == Variance(ValuesOf(f))
VarianceDefined(f) == ~SampleVariance(f).nan

\* f may stand before g in a ranking by descending variance in which the
\* fields of undefined variance come last
RanksBefore(f, g) ==
    IF VarianceDefined(f)
    THEN VarianceDefined(g) => ~FloatLess(SampleVariance(f), SampleVariance(g))
    ELSE ~VarianceDefined(g)

\* C13: if a numeric field name contains a keyword, keyMetrics is exactly the
\* keyword-matching numeric fields in numericFields order, without a cap;
\* otherwise keyMetrics holds min(3, |numericFields|) numeric fields in
\* descending sample variance, a field of undefined variance never ahead of
\* a field of defined variance.
C13_KeyMetricSelection ==
    (Has(analysis) /\ ~df_empty(Frame)) =>
        LET numeric == Profile.numericFields
            matching == Filter(numeric, LAMBDA f : AnyHint(metric_keywords, f))
            km == Profile.keyMetrics
        IN  IF matching # << >> THEN km = matching
            ELSE /\ Len(km) = (IF Len(numeric) < 3 THEN Len(numeric) ELSE 3)
                 /\ SeqToSet(km) \subseteq SeqToSet(numeric)
                 /\ \A i, j \in 1..Len(km) : i < j => km[i] # km[j] /\ RanksBefore(km[i], km[j])
                 /\ \A f \in SeqToSet(numeric) \ SeqToSet(km) :
                        \A i \in 1..Len(km) : RanksBefore(km[i], f)

\* the name holds one of the identifier hints
IdName(f) ==
    \E h \in {"id", "key", "index", "no", "number", "code"} : Contains(Lower(f), h)

\* no two records hold the same value in the column, a missing value
\* counting as a value
AllDistinct(cells) ==
    \A i, j \in 1..Len(cells) :
        i < j => ~(\/ IsNull(cells[i]) /\ IsNull(cells[j])
                   \/ ~IsNull(cells[i]) /\ ~IsNull(cells[j]) /\ cells[i].n = cells[j].n)

\* no value is missing and none is smaller than the one before it
NonDecreasing(cells) ==
    /\ \A i \in 1..Len(cells) : ~IsNull(cells[i])
    /\ \A i \in 2..Len(cells) : cells[i - 1].n <= cells[i].n
StrictlyIncreasingInts(cells) ==
    /\ \A i \in 1..Len(cells) : cells[i].k = "int"
    /\ \A i \in 2..Len(cells) : cells[i - 1].n < cells[i].n

LatitudeName(f) == \E pattern \in {"lat", "latitude", "y"} : Contains(Lower(f), pattern)
LongitudeName(f) == \E pattern \in {"lon", "lng", "long", "longitude", "x"} : Contains(Lower(f), pattern)

\* the first hundred non-null values of the field: there is one, and all lie
\* in lo..hi
SampledWithin(f, lo, hi) ==
    LET sampled == Head_(DropNa(ValuesOf(f)), 100)
    IN  /\ sampled # << >>
        /\ \A i \in 1..Len(sampled) : 10 * lo <= sampled[i].n /\ sampled[i].n <= 10 * hi

ValidLatitude(f) == NumericValued(f) /\ LatitudeName(f) /\ SampledWithin(f, 0 - 90, 90)
ValidLongitude(f) == NumericValued(f) /\ LongitudeName(f) /\ SampledWithin(f, 0 - 180, 180)

\* C15: globe is recommended only when the data has both a numeric field of
\* a latitude name with all sampled values in -90..90 and a numeric field
\* of a longitude name with all sampled values in -180..180.
C15_GlobeNeedsBothRoles ==
    (Has(analysis) /\ "globe" \in SeqToSet(Profile.recommendedCharts)) =>
        \E f, g \in Keys(Profile.dataTypes) :
            f # g /\ ValidLatitude(f) /\ ValidLongitude(g)
C15_Witness ==
    /\ Has(analysis)
    /\ "globe" \in SeqToSet(Profile.recommendedCharts)
    /\ Len(data) >= 2

\* a latitude name and a longitude name in the data, one of them out of
\* range, and no globe
GlobeDeniedOutOfRange ==
    /\ Has(analysis)
    /\ "globe" \notin SeqToSet(Profile.recommendedCharts)
    /\ \E f, g \in Keys(Profile.dataTypes) :
          NumericValued(f) /\ LatitudeName(f) /\ ~ValidLatitude(f) /\ ValidLongitude(g)

Built == pc = "built"
MetricCount == IF Len(Profile.keyMetrics) < 3 THEN Len(Profile.keyMetrics) ELSE 3
HasLine ==
    Profile.isTimeSeries /\ Profile.timeFields # << >> /\ Profile.numericFields # << >>
HasBar == Profile.categoricalFields # << >> /\ Profile.numericFields # << >>
LineAt == MetricCount + 1
BarAt == MetricCount + (IF HasLine THEN 1 ELSE 0) + 1
TableAt == MetricCount + (IF HasLine THEN 1 ELSE 0) + (IF HasBar THEN 1 ELSE 0) + 1

\* the component has this id and type, and its dataMapping holds exactly
\* the given keys
IsComponent(c, id, type, mapping) ==
    c.id = Some(id) /\ c.type = Some(type) /\ c.dataMapping = Some(mapping)

\* C16: the fallback builder's components are, in order: a metric component
\* metric_n for each of the first min(3, |keyMetrics|) key metrics; a line
\* component chart_1 on the first time and first numeric field iff
\* isTimeSeries and both lists are non-empty; a bar component chart_2 on the
\* first categorical and first numeric field iff both lists are non-empty;
\* one table component table_1 with an empty dataMapping. The ids are
\* pairwise distinct.
C16_FallbackComponents ==
    Built =>
        LET cs == ResultComponents
        IN  /\ Len(cs) = TableAt
            /\ \A n \in 1..MetricCount :
                  IsComponent(cs[n], "metric_" \o NatStr(n), "metric",
                              [EmptyMapping EXCEPT !.value = MStr(Profile.keyMetrics[n])])
            /\ HasLine =>
                  IsComponent(cs[LineAt], "chart_1", "line",
                              [EmptyMapping EXCEPT !.xAxis = MStr(Profile.timeFields[1]),
                                                   !.yAxis = MStr(Profile.numericFields[1])])
            /\ HasBar =>
                  IsComponent(cs[BarAt], "chart_2", "bar",
                              [EmptyMapping EXCEPT !.xAxis = MStr(Profile.categoricalFields[1]),
                                                   !.yAxis = MStr(Profile.numericFields[1])])
            /\ IsComponent(cs[TableAt], "table_1", "table", EmptyMapping)
            /\ \A i, j \in 1..Len(cs) : i # j => cs[i].id # cs[j].id
C16_Witness ==
    /\ Built
    /\ Len(Profile.keyMetrics) > 3
    /\ HasLine
    /\ HasBar
    /\ Len(ResultComponents) = 6

\* the roles the geographic detection gives to the fields of the data
GeographicRoles == _detect_geographic_fields(Frame)
HasBothRoles ==
    LET roles == GeographicRoles
    IN  /\ \E i \in 1..Len(roles) : roles[i].val = "lat"
        /\ \E i \in 1..Len(roles) : roles[i].val = "lon"

\* the list the priority rules build from the role lists of the profile
PriorityList ==
    (IF HasBothRoles THEN <<"globe">> ELSE << >>)
    \o (IF Profile.timeFields # << >> /\ Profile.numericFields # << >>
        THEN <<"line", "area">> ELSE << >>)
    \o (IF /\ Profile.numericFields # << >>
           /\ \E i \in 1..Len(Profile.categoricalFields) :
                 Lookup(Profile.cardinality, Profile.categoricalFields[i], 0) <= 10
        THEN <<"bar", "pie">> ELSE << >>)
    \o (IF Len(Profile.numericFields) >= 2 THEN <<"scatter">> ELSE << >>)
    \o <<"metric", "table">>

ScenarioB ==
    <<RowDict(<<Pair("lat", FloatV(377)), Pair("lon", FloatV(0 - 1224)), Pair("count", IntV(5))>>)>>

\* C17 as stated: for every non-empty input recommendedCharts is the
\* duplicate-free list in priority order: globe iff a latitude-role and a
\* longitude-role field exist; line, area iff a time field and a numeric
\* field exist; bar, pie iff a numeric field and a categorical field of
\* cardinality <= 10 exist; scatter iff two numeric fields exist; metric;
\* table. A globe is the first element.
C17_ChartPriorityOrderNonEmptyInput ==
    (Has(analysis) /\ data # << >>) =>
        LET charts == Profile.recommendedCharts
        IN  /\ charts = PriorityList
            /\ \A i, j \in 1..Len(charts) : i # j => charts[i] # charts[j]
            /\ "globe" \in SeqToSet(charts) => charts[1] = "globe"
            /\ data = ScenarioB => charts[1] = "globe"

\* C17: for every input whose records have at least one field,
\* recommendedCharts is the duplicate-free list in that priority order, and
\* a globe is the first element.
C17_ChartPriorityOrder ==
    (Has(analysis) /\ ~df_empty(Frame)) =>
        LET charts == Profile.recommendedCharts
        IN  /\ charts = PriorityList
            /\ \A i, j \in 1..Len(charts) : i # j => charts[i] # charts[j]
            /\ "globe" \in SeqToSet(charts) => charts[1] = "globe"
            /\ data = ScenarioB => charts[1] = "globe"
C17_Witness ==
    /\ Has(analysis)
    /\ data = ScenarioB
    /\ Profile.recommendedCharts = <<"globe", "line", "area", "scatter", "metric", "table">>

\* a categorical field of cardinality above 10 and no other: no bar, no pie
NoBarAboveTen ==
    /\ Has(analysis)
    /\ Profile.categoricalFields # << >>
    /\ Profile.numericFields # << >>
    /\ "bar" \notin SeqToSet(Profile.recommendedCharts)

TemporalName(f) ==
    \E hint \in {"date", "time", "timestamp", "created", "updated", "at", "on"} :
        Contains(Lower(f), hint)

\* up to ten non-null values of the field
SampleOf(f) == Head_(DropNa(ValuesOf(f)), 10)
AtLeast80(valid, total) == total > 0 /\ 10 * valid >= 8 * total
FixedFormatParses(f) ==
    \E i \in 1..Len(date_formats) :
        AtLeast80(CountOf(SampleOf(f), LAMBDA v : ParsesWithFormat(date_formats[i], v)),
                  Len(SampleOf(f)))
MixedParses(f) ==
    AtLeast80(CountOf(SampleOf(f), LAMBDA v : ParsesMixed(v)), Len(SampleOf(f)))

\* C18: a non-numeric field is classified as datetime if its name contains
\* a temporal hint (even when no value parses or every value is null), or
\* if at least 80% of a sample of up to 10 non-null values parses under one
\* of the fixed formats (exactly 80% counts), or, when no fixed format
\* reaches 80%, if at least 80% of the sample parses under the permissive
\* mixed parse; otherwise it is not.
C18_DatetimeDetection ==
    Has(analysis) =>
        \A f \in Keys(Profile.dataTypes) :
            ~NumericValued(f) =>
                (TypeOfField(f) = "datetime"
                    <=> TemporalName(f) \/ FixedFormatParses(f) \/ MixedParses(f))

\* C19: a field is listed in timeFields if and only if its dataTypes entry
\* is datetime; a field of numeric values is never listed in timeFields.
C19_TimeFieldsAreDatetime ==
    Has(analysis) =>
        \A f \in Keys(Profile.dataTypes) :
            /\ f \in SeqToSet(Profile.timeFields) <=> TypeOfField(f) = "datetime"
            /\ NumericValued(f) => f \notin SeqToSet(Profile.timeFields)

\* the distinct non-null values of the field
DistinctCount(f) ==
    LET present == DropNa(ValuesOf(f))
    IN  Cardinality({[k |-> IF present[i].k = "str" THEN "str" ELSE "num",
                      n |-> present[i].n, s |-> present[i].s] : i \in 1..Len(present)})
MeetsCategoricalRule(f) ==
    LET distinct == DistinctCount(f)
    IN  ~NumericValued(f) /\ 2 * distinct < Len(data) /\ distinct < 50

\* C20 as stated: categoricalFields is exactly the set of non-numeric
\* fields whose distinct non-null value count is strictly less than 50% of
\* the record count and strictly less than 50; numericFields and
\* categoricalFields are disjoint; a single-record input has no categorical
\* fields.
C20_CategoricalNoneInSingleRecord ==
    Has(analysis) =>
        /\ SeqToSet(Profile.categoricalFields) = {f \in Keys(Profile.dataTypes) : MeetsCategoricalRule(f)}
        /\ SeqToSet(Profile.categoricalFields) \cap SeqToSet(Profile.numericFields) = {}
        /\ Len(data) = 1 => Profile.categoricalFields = << >>

\* C20: categoricalFields is exactly the set of non-numeric fields whose
\* distinct non-null value count is strictly less than 50% of the record
\* count and strictly less than 50; numericFields and categoricalFields are
\* disjoint; in a single-record input the categorical fields are the
\* non-numeric fields whose value is null.
C20_CategoricalFilter ==
    Has(analysis) =>
        /\ SeqToSet(Profile.categoricalFields) = {f \in Keys(Profile.dataTypes) : MeetsCategoricalRule(f)}
        /\ SeqToSet(Profile.categoricalFields) \cap SeqToSet(Profile.numericFields) = {}
        /\ Len(data) = 1 =>
              SeqToSet(Profile.categoricalFields)
                 = {f \in Keys(Profile.dataTypes) : ~NumericValued(f) /\ IsNull(ValuesOf(f)[1])}
C20_Witness ==
    /\ Has(analysis)
    /\ Len(data) = 1
    /\ Profile.categoricalFields # << >>
    /\ Profile.numericFields # << >>

\* 50 distinct values in 101 records: below the half, not below the cap
CapExcludes ==
    /\ Has(analysis)
    /\ \E f \in Keys(Profile.dataTypes) :
          /\ ~NumericValued(f)
          /\ 2 * DistinctCount(f) < Len(data)
          /\ f \notin SeqToSet(Profile.categoricalFields)

\* the kinds of the values a field has where it is not null or missing
PresentKinds(f) == {c.k : c \in SeqToSet(DropNa(ValuesOf(f)))}

\* C22: the type of a field is inferred from its non-null values alone: a
\* field whose non-null values are all integers has type "integer", also
\* when some record has null or no value for it; a field of numbers with
\* a fractional value has type "float"; a field of booleans has type
\* "boolean" and is no numeric field; any other field is "datetime" or
\* "string".
C22_TypeInference ==
    Has(analysis) =>
        \A f \in Keys(Profile.dataTypes) :
            LET kinds == PresentKinds(f)
            IN  kinds # {} =>
                  IF kinds = {"int"} THEN TypeOfField(f) = "integer"
                  ELSE IF kinds \subseteq {"int", "float"} THEN TypeOfField(f) = "float"
                  ELSE IF kinds = {"bool"}
                  THEN /\ TypeOfField(f) = "boolean"
                       /\ f \notin SeqToSet(Profile.numericFields)
                  ELSE TypeOfField(f) \in {"datetime", "string"}

\* C22 with the two defects set aside: checked to hold, so that the claim
\* fails on integers with gaps and on booleans only
C22_TypeInferenceOnDtypes ==
    Has(analysis) =>
        \A f \in Keys(Profile.dataTypes) :
            LET kinds == PresentKinds(f)
                gaps == Len(DropNa(ValuesOf(f))) < Len(ValuesOf(f))
            IN  kinds # {} =>
                  IF kinds = {"int"} THEN TypeOfField(f) = (IF gaps THEN "float" ELSE "integer")
                  ELSE IF kinds \subseteq {"int", "float"} THEN TypeOfField(f) = "float"
                  ELSE IF kinds = {"bool"}
                  THEN IF gaps THEN TypeOfField(f) \in {"datetime", "string"}
                       ELSE /\ TypeOfField(f) = "float"
                            /\ f \in SeqToSet(Profile.numericFields)
                  ELSE TypeOfField(f) \in {"datetime", "string"}

\* every element of a sequence value is a mapping
AllMappings(v) == \A i \in 1..Len(v.items) : v.items[i].val.k = "dict"

\* C23: the flat value of a sequence is a string: the sorted-key
\* serialization of the sequence if and only if the sequence is not empty
\* and every element of it is a mapping, and the plain stringification of
\* the sequence otherwise.
C23_SequenceFlattening ==
    Has(analysis) =>
        \A i \in 1..Len(data) :
            i <= Len(Profile.sampleData) =>
                \A j \in 1..Len(data[i].items) :
                    LET key == data[i].items[j].key
                        v == data[i].items[j].val
                        flat == CellOf(Profile.sampleData[i], key)
                    IN  v.k = "list" =>
                          /\ flat.k = "str"
                          /\ flat.s = IF Len(v.items) > 0 /\ AllMappings(v)
                                      THEN JsonDumps(v) ELSE PyStr(v)

\* C23 as the code decides it, by the first element alone: checked to hold
C23_SequenceFlatteningByFirst ==
    Has(analysis) =>
        \A i \in 1..Len(data) :
            i <= Len(Profile.sampleData) =>
                \A j \in 1..Len(data[i].items) :
                    LET key == data[i].items[j].key
                        v == data[i].items[j].val
                        flat == CellOf(Profile.sampleData[i], key)
                    IN  v.k = "list" =>
                          /\ flat.k = "str"
                          /\ flat.s = IF Len(v.items) > 0 /\ v.items[1].val.k = "dict"
                                      THEN JsonDumps(v) ELSE PyStr(v)

-----------------------------------------------------------------------------
(* The recovery path on a parsed answer: type normalisation, then the
   construction of the DashboardSpec *)

\* the spellings of a component type the parsed answers carry
TypeSpellings ==
    {"line", "LINE", "Bar", " Line", "horizontal_bar", "horizontalbar",
     "HorizontalBar", "p_ie", "Globe", "donut"}

\* parsed answers: zero to MaxComponents components that differ from the
\* base component in the type only, or carry no type
RecoveryDocs ==
    {Document(Some(cs), [layout |-> Some(BaseLayout), metadata |-> Some(BaseMetadata)]) :
        cs \in SeqsUpTo({[BaseComponent EXCEPT !.type = Some(t)] : t \in TypeSpellings}
                        \cup {[BaseComponent EXCEPT !.type = Absent]}, MaxComponents)}

InitRecovery ==
    /\ candidate \in RecoveryDocs
    /\ verdict = Unvalidated
    /\ data = << >>
    /\ pc = "parsed"
    /\ attempt = 0
    /\ llmCalls = 0
    /\ analysis = Absent
    /\ result = NoResult

\* parsed_data is normalised in place and handed to DashboardSpec
NormalizeAndValidate ==
    /\ pc = "parsed"
    /\ candidate' = NormalizeTypes(candidate)
    /\ verdict' = DashboardSpec(NormalizeTypes(candidate))
    /\ pc' = "recovered"
    /\ UNCHANGED <<data, attempt, llmCalls, analysis, result>>

NextRecovery == NormalizeAndValidate

SpecRecovery == InitRecovery /\ [][NextRecovery]_vars

-----------------------------------------------------------------------------
(* Claims about the recovery path, checked under SpecRecovery *)

\* a type spelling with its underscores dropped and its letters lowered
RECURSIVE DropUnderscores(_)
DropUnderscores(s) ==
    IF s = "" THEN ""
    ELSE (IF CharAt(s, 1) = "_" THEN "" ELSE CharAt(s, 1))
         \o DropUnderscores(SubSeq(s, 2, Len(s)))
Folded(s) == Lower(DropUnderscores(s))

\* the enum values a spelling differs from by letter case or underscores only
EnumMatches(t) == {e \in SpecTypes : Folded(e) = Folded(t)}

\* C21: when the recovery path normalises and validates a parsed answer,
\* every component type that differs from an enum value only by letter case
\* or underscores is rewritten to that enum value and draws no enum error,
\* and every type that matches no enum value is left as it was written and
\* draws the enum error.
C21_TypeRecovery ==
    [][(pc = "parsed" /\ pc' = "recovered") =>
         \A i \in 1..Len(Components(candidate)) :
            LET before == Components(candidate)[i].type
                after == Components(candidate')[i].type
                rejected == Err("type:enum", i) \in verdict'.errors
            IN  Has(before) =>
                  IF EnumMatches(Get(before)) # {}
                  THEN Get(after) \in EnumMatches(Get(before)) /\ ~rejected
                  ELSE after = before /\ rejected]_vars

-----------------------------------------------------------------------------
(* Claims about the work of a request, checked under FairSpec *)

\* the attempts made and the model invocations stay within their limits, and
\* a fallback result exists only once the last attempt has failed
WithinLimits ==
    /\ attempt <= 3
    /\ llmCalls <= 2 * attempt
    /\ llmCalls <= 6
    /\ result.kind \in {"fallback", "raised"} => (attempt = 3 /\ pc = "done")
    /\ (pc = "done" /\ attempt < 3) => result.kind = "spec"

\* C24: every request ends; generation is attempted at most 3 times, each
\* attempt invokes the model at most twice (the chain call and one raw
\* invocation after it), so at most 6 times per request; the fallback
\* builder runs only after the third attempt has failed, and once: a result
\* that has been set is never set again.
C24_Terminates ==
    /\ []WithinLimits
    /\ [][(result.kind # "none" => result' = result)
          /\ (llmCalls' > llmCalls => pc \in {"chain", "recover"})
          /\ ((pc = "recover" /\ llmCalls' > llmCalls) =>
                 ~verdict.valid)]_vars
    /\ <>(pc = "done")
\* the steps the fairness conditions name are the steps of StartAttempt
\* and of Fallback
FairStepsAreActions ==
    [][(StartAttempt <=> AttemptBegins) /\ (Fallback <=> FallbackReturns)]_vars
C24_Witness ==
    /\ pc = "done"
    /\ attempt = 3
    /\ llmCalls = 6
    /\ result.kind = "fallback"

-----------------------------------------------------------------------------
(* Claims about the specification a request returns, checked under Spec *)

\* the (key, value) pairs a dataMapping supplies
DeclaredKeys == {"xAxis", "yAxis", "value", "label", "category", "series"}
Supplied(m) ==
    {Pair(key, m[key]) : key \in {k \in DeclaredKeys : m[k].k # "absent"}}
    \cup SeqToSet(m.extra)

\* C25: when a candidate is accepted, the specification returned carries,
\* for every component, every dataMapping key the candidate supplied with
\* the value it supplied, the keys the prompt names (xKey, yKeys, ...)
\* included: no supplied key is dropped or rewritten.
C25_MappingsKept ==
    (Returned /\ result.kind = "spec") =>
        /\ Len(ResultComponents) = Len(Components(candidate))
        /\ \A i \in 1..Len(Components(candidate)) :
              Supplied(Get(Components(candidate)[i].dataMapping))
                 \subseteq Supplied(Get(ResultComponents[i].dataMapping))

\* C25 for the six keys DataMapping declares: checked to hold
C25_DeclaredMappingsKept ==
    (Returned /\ result.kind = "spec") =>
        /\ Len(ResultComponents) = Len(Components(candidate))
        /\ \A i \in 1..Len(Components(candidate)) :
              \A key \in DeclaredKeys :
                 LET given == Get(Components(candidate)[i].dataMapping)[key]
                     kept == Get(ResultComponents[i].dataMapping)[key]
                 IN  given.k # "absent" => kept = given

====
